---- MODULE Spec2Model ----
(***************************************************************************)
(* PandasFrameAnalysis (smdebug/profiler/analysis/utils/                   *)
(* pandas_data_analysis.py): queries over a system-metrics table and a     *)
(* framework-metrics table.                                                *)
(*                                                                         *)
(* A DataFrame is a sequence of rows (records); the row at position i of a *)
(* table handed to the constructor carries the index label i-1 (the        *)
(* default RangeIndex).  Index labels of the interval table are kept       *)
(* doubled (label 2*n stands for n, 2*n+1 for n + 0.5) so that the         *)
(* "ind + 0.5" labels of the source stay integers.                         *)
(* Times in milliseconds (x / 1000) are kept as the integer numerator x.   *)
(***************************************************************************)
EXTENDS Integers, Sequences, FiniteSets, TLC

VARIABLES
    sys_metrics_df,        \* self.sys_metrics_df
    framework_metrics_df,  \* self.framework_metrics_df
    init_framework_df,     \* the framework table as it was handed to __init__
    ret                    \* the last call: its name, arguments and outcome

vars == <<sys_metrics_df, framework_metrics_df, init_framework_df, ret>>

(***************************************************************************)
(* Bounds of the model.                                                    *)
(***************************************************************************)
MaxFw == 3
MaxSys == 2
MaxRanges == 2

\* the time axis of the tables, in microseconds
Times == 0..2

(***************************************************************************)
(* Strings.  TLC cannot look inside a string, so every name the model uses *)
(* is listed with its characters; substring tests and comparisons are      *)
(* computed on the characters.                                             *)
(***************************************************************************)
TRAIN == "Step:ModeKeys.TRAIN"
EVAL == "Step:ModeKeys.EVAL"
GLOBAL == "Step:ModeKeys.GLOBAL"
STEP_MODEKEYS == "Step:ModeKeys"
FORWARD == "Forward"
CPU0 == "cpu0"
GPU0 == "gpu0"
CPU == "cpu"
GPU == "gpu"

StepModeKeysChars == <<"S", "t", "e", "p", ":", "M", "o", "d", "e", "K", "e", "y", "s">>

Chars(s) ==
    CASE s = TRAIN -> StepModeKeysChars \o <<".", "T", "R", "A", "I", "N">>
      [] s = EVAL -> StepModeKeysChars \o <<".", "E", "V", "A", "L">>
      [] s = GLOBAL -> StepModeKeysChars \o <<".", "G", "L", "O", "B", "A", "L">>
      [] s = STEP_MODEKEYS -> StepModeKeysChars
      [] s = FORWARD -> <<"F", "o", "r", "w", "a", "r", "d">>
      [] s = CPU0 -> <<"c", "p", "u", "0">>
      [] s = GPU0 -> <<"g", "p", "u", "0">>
      [] s = CPU -> <<"c", "p", "u">>
      [] s = GPU -> <<"g", "p", "u">>

\* Character codes (ASCII) of the characters that occur in the names.
Digits == <<"0", "1", "2", "3", "4", "5", "6", "7", "8", "9">>

Upper ==
    <<"A", "B", "C", "D", "E", "F", "G", "H", "I", "J", "K", "L", "M",
      "N", "O", "P", "Q", "R", "S", "T", "U", "V", "W", "X", "Y", "Z">>

Lower ==
    <<"a", "b", "c", "d", "e", "f", "g", "h", "i", "j", "k", "l", "m",
      "n", "o", "p", "q", "r", "s", "t", "u", "v", "w", "x", "y", "z">>

PosIn(c, table) == CHOOSE i \in 1..Len(table) : table[i] = c

Ord(c) ==
    CASE c = " " -> 32
      [] c = "." -> 46
      [] c = ":" -> 58
      [] \E i \in 1..Len(Digits) : Digits[i] = c -> 47 + PosIn(c, Digits)
      [] \E i \in 1..Len(Upper) : Upper[i] = c -> 64 + PosIn(c, Upper)
      [] \E i \in 1..Len(Lower) : Lower[i] = c -> 96 + PosIn(c, Lower)

\* Python's (sub in s) and Series.str.contains(sub) for a pattern without
\* regex metacharacters.
StrContains(s, sub) ==
    LET cs == Chars(s)
        cb == Chars(sub)
    IN  \E k \in 0..(Len(cs) - Len(cb)) :
            \A j \in 1..Len(cb) : cs[k + j] = cb[j]

\* Python's a <= b on str: code-point order, a proper prefix first.
StrLessEq(a, b) ==
    LET ca == Chars(a)
        cb == Chars(b)
        diff == {i \in 1..Len(ca) : i > Len(cb) \/ ca[i] # cb[i]}
    IN  IF diff = {} THEN TRUE
        ELSE LET d == CHOOSE i \in diff : \A j \in diff : i <= j
             IN  d <= Len(cb) /\ Ord(ca[d]) < Ord(cb[d])

\* the pair left in the order it came in
Sorted2Unsorted(a, b) == <<a, b>>

\* sorted([a, b])
Sorted2(a, b) == IF StrLessEq(a, b) THEN <<a, b>> ELSE <<b, a>>

\* " and ".join(names)
RECURSIVE JoinAnd(_)
JoinAnd(names) ==
    IF Len(names) = 0 THEN ""
    ELSE IF Len(names) = 1 THEN names[1]
    ELSE names[1] \o " and " \o JoinAnd(Tail(names))

(***************************************************************************)
(* Helpers on sequences of rows.                                           *)
(***************************************************************************)
SeqRange(s) == {s[i] : i \in 1..Len(s)}

SetMin(S) == CHOOSE x \in S : \A y \in S : x <= y

SetMax(S) == CHOOSE x \in S : \A y \in S : x >= y

RECURSIVE SelectRows(_, _)
\* the rows at the positions in `keep`, in table order
SelectRows(rows, keep) ==
    IF Len(rows) = 0 THEN <<>>
    ELSE LET n == Len(rows)
             front == SelectRows(SubSeq(rows, 1, n - 1), keep)
         IN  IF n \in keep THEN Append(front, rows[n]) ELSE front

\* a row put into a table sorted by index label, behind the labels up to its own
InsertByIndex(sorted, row) ==
    LET p == Cardinality({j \in 1..Len(sorted) : sorted[j].index <= row.index})
    IN  SubSeq(sorted, 1, p) \o <<row>> \o SubSeq(sorted, p + 1, Len(sorted))

RECURSIVE SortByIndex(_)
\* DataFrame.sort_index()
SortByIndex(rows) ==
    IF Len(rows) = 0 THEN <<>>
    ELSE InsertByIndex(SortByIndex(SubSeq(rows, 1, Len(rows) - 1)), rows[Len(rows)])

\* Series.unique(): the values in order of first appearance
RECURSIVE Unique(_)
Unique(s) ==
    IF Len(s) = 0 THEN <<>>
    ELSE LET front == Unique(SubSeq(s, 1, Len(s) - 1))
         IN  IF s[Len(s)] \in SeqRange(front) THEN front ELSE Append(front, s[Len(s)])

(***************************************************************************)
(* __init__: the duration column.                                          *)
(***************************************************************************)
\* the duration counted inclusive of both ends
DurationUsInclusive(row) == row.end_time_us - row.start_time_us + 1

DurationUs(row) == row.end_time_us - row.start_time_us

WithDuration(framework_df) ==
    [i \in 1..Len(framework_df) |->
        [start_time_us |-> framework_df[i].start_time_us,
         end_time_us |-> framework_df[i].end_time_us,
         framework_metric |-> framework_df[i].framework_metric,
         process |-> framework_df[i].process,
         step |-> framework_df[i].step,
         duration_us |-> DurationUs(framework_df[i])]]

(***************************************************************************)
(* get_training_phase_intervals                                            *)
(***************************************************************************)
\* self.sys_metrics_df["timestamp_us"].min() / .max()
MinTimestamp(sys_df) == SetMin({sys_df[i].timestamp_us : i \in 1..Len(sys_df)})

MaxTimestamp(sys_df) == SetMax({sys_df[i].timestamp_us : i \in 1..Len(sys_df)})

\* phase is None: the processes whose name contains "Step:ModeKeys"
DefaultPhase(framework_df) ==
    LET process_list == Unique([i \in 1..Len(framework_df) |-> framework_df[i].process])
    IN  SelectRows(process_list,
                   {i \in 1..Len(process_list) : StrContains(process_list[i], STEP_MODEKEYS)})

\* the selection with its index reset to 0, 1, ..
ModeRowsReindexed(framework_df, phase) ==
    LET selected ==
            SelectRows([i \in 1..Len(framework_df) |->
                           [index |-> 0,
                            start_time_us |-> framework_df[i].start_time_us,
                            end_time_us |-> framework_df[i].end_time_us,
                            framework_metric |-> framework_df[i].framework_metric]],
                       {i \in 1..Len(framework_df) :
                           framework_df[i].framework_metric \in SeqRange(phase)})
    IN  [i \in 1..Len(selected) |-> [selected[i] EXCEPT !.index = 2 * (i - 1)]]

\* framework_metrics_df[framework_metrics_df["framework_metric"].isin(phase)]:
\* the selected rows keep their index labels
ModeRows(framework_df, phase) ==
    SelectRows([i \in 1..Len(framework_df) |->
                   [index |-> 2 * (i - 1),
                    start_time_us |-> framework_df[i].start_time_us,
                    end_time_us |-> framework_df[i].end_time_us,
                    framework_metric |-> framework_df[i].framework_metric]],
               {i \in 1..Len(framework_df) :
                   framework_df[i].framework_metric \in SeqRange(phase)})

\* the key computed with eq in place of ne: it steps where the phase stays
GroupKeyEq(mode_df) ==
    [i \in 1..Len(mode_df) |->
        1 + Cardinality({j \in 2..i :
                mode_df[j].framework_metric = mode_df[j - 1].framework_metric})]

\* mode_df["framework_metric"].ne(mode_df["framework_metric"].shift()).cumsum()
GroupKey(mode_df) ==
    [i \in 1..Len(mode_df) |->
        Cardinality({j \in 1..i :
            j = 1 \/ mode_df[j].framework_metric # mode_df[j - 1].framework_metric})]

\* groupby(key).apply(min start, max end, first phase).reset_index(drop=True)
RunLengthMerge(mode_df) ==
    LET key == GroupKey(mode_df)
        ngroups == IF Len(mode_df) = 0 THEN 0 ELSE key[Len(mode_df)]
    IN  [g \in 1..ngroups |->
            LET members == {i \in 1..Len(mode_df) : key[i] = g}
            IN  [index |-> 2 * (g - 1),
                 start_time_us |-> SetMin({mode_df[i].start_time_us : i \in members}),
                 end_time_us |-> SetMax({mode_df[i].end_time_us : i \in members}),
                 phase |-> mode_df[SetMin(members)].framework_metric]]

\* mode_df[["start_time_us", "end_time_us", "framework_metric"]] with
\* framework_metric renamed to phase
SelectAndRename(mode_df) ==
    [i \in 1..Len(mode_df) |->
        [index |-> mode_df[i].index,
         start_time_us |-> mode_df[i].start_time_us,
         end_time_us |-> mode_df[i].end_time_us,
         phase |-> mode_df[i].framework_metric]]

\* the rows never merged, whatever the phase list
PhaseIntervalsUnmerged(framework_df, phase) ==
    SelectAndRename(ModeRows(framework_df, phase))

\* the branch on len(phase)
PhaseIntervals(framework_df, phase) ==
    IF Len(phase) > 1
    THEN RunLengthMerge(ModeRows(framework_df, phase))
    ELSE SelectAndRename(ModeRows(framework_df, phase))

\* the row synthesized between rows i and i+1 of mode_df
BetweenRow(mode_df, i) ==
    [index |-> mode_df[i].index + 1,
     start_time_us |-> mode_df[i].end_time_us + 1,
     end_time_us |-> mode_df[i + 1].start_time_us - 1,
     phase |-> "Between " \o JoinAnd(Sorted2(mode_df[i].phase, mode_df[i + 1].phase))]

\* the loop over range(len(mode_df.index) - 1): the new rows are appended
\* under the label ind + 0.5
WithBetweenRows(mode_df, training_phases) ==
    mode_df \o
    SelectRows([i \in 1..(Len(mode_df) - 1) |-> BetweenRow(mode_df, i)],
               {i \in 1..(Len(mode_df) - 1) :
                   /\ mode_df[i].phase \in training_phases
                   /\ mode_df[i + 1].phase \in training_phases})

\* mode_df[column][0]: a lookup by label
HasLabel0(mode_df) == \E i \in 1..Len(mode_df) : mode_df[i].index = 0

RowLabel0(mode_df) == mode_df[CHOOSE i \in 1..Len(mode_df) : mode_df[i].index = 0]

BeforeRow(sys_df, mode_df) ==
    [index |-> -2,
     start_time_us |-> MinTimestamp(sys_df),
     end_time_us |-> RowLabel0(mode_df).start_time_us - 1,
     phase |-> "Before " \o RowLabel0(mode_df).phase]

\* the After row started right after the last interval's end
AfterRowFromEnd(sys_df, mode_df) ==
    [index |-> 2 * Len(mode_df),
     start_time_us |-> mode_df[Len(mode_df)].end_time_us + 1,
     end_time_us |-> MaxTimestamp(sys_df),
     phase |-> "After " \o mode_df[Len(mode_df)].phase]

\* built from the last row of the sorted, re-indexed table
AfterRow(sys_df, mode_df) ==
    [index |-> 2 * Len(mode_df),
     start_time_us |-> mode_df[Len(mode_df)].start_time_us - 1,
     end_time_us |-> MaxTimestamp(sys_df),
     phase |-> "After " \o mode_df[Len(mode_df)].phase]

\* sort_index().reset_index(drop=True)
SortAndReset(mode_df) ==
    LET sorted == SortByIndex(mode_df)
    IN  [i \in 1..Len(sorted) |-> [sorted[i] EXCEPT !.index = 2 * (i - 1)]]

DropIndex(mode_df) ==
    [i \in 1..Len(mode_df) |->
        [start_time_us |-> mode_df[i].start_time_us,
         end_time_us |-> mode_df[i].end_time_us,
         phase |-> mode_df[i].phase]]

\* The whole of get_training_phase_intervals for a phase list.  The lookup
\* of label 0 raises KeyError (a LookupError) when no row carries it.
TrainingPhaseIntervals(sys_df, framework_df, phase) ==
    LET selected == ModeRows(framework_df, phase)
        training_phases == {selected[i].framework_metric : i \in 1..Len(selected)}
        merged == PhaseIntervals(framework_df, phase)
        filled == WithBetweenRows(merged, training_phases)
    IN  IF ~HasLabel0(filled)
        THEN [raised |-> "LookupError", value |-> <<>>]
        ELSE LET sorted == SortAndReset(Append(filled, BeforeRow(sys_df, filled)))
             IN  [raised |-> "", value |-> DropIndex(Append(sorted, AfterRow(sys_df, sorted)))]

(***************************************************************************)
(* get_job_statistics.  Every duration is the numerator of x / 1000; a     *)
(* percentage (x / job_duration) * 100 is kept as the pair num / den.      *)
(***************************************************************************)
\* the positions of the rows of step 0 in the TRAIN or GLOBAL mode
Step0(framework_df) ==
    {i \in 1..Len(framework_df) :
        /\ framework_df[i].step = 0
        /\ framework_df[i].framework_metric \in {TRAIN, GLOBAL}}

MaxEndTime(framework_df) == SetMax({framework_df[i].end_time_us : i \in 1..Len(framework_df)})

Percent(x, job_duration) == [num |-> 100 * x, den |-> job_duration]

\* step_0[column][0] looks up the index label 0, the first framework row;
\* training_loop_duration subtracts the whole step_0 column, a Series with
\* one entry per step-0 row.
JobStatistics(sys_df, framework_df) ==
    IF 1 \notin Step0(framework_df)
    THEN [raised |-> "LookupError", value |-> <<>>]
    ELSE LET step_0 == Step0(framework_df)
             job_duration == MaxTimestamp(sys_df) - MinTimestamp(sys_df)
             training_loop_duration ==
                 [i \in step_0 |-> MaxEndTime(framework_df) - framework_df[i].start_time_us]
             initialization == framework_df[1].start_time_us
             finalization == MaxTimestamp(sys_df) - MaxEndTime(framework_df)
         IN  [raised |-> "",
              value |->
                 [job_duration |-> job_duration,
                  training_loop_duration |-> training_loop_duration,
                  initialization |-> initialization,
                  finalization |-> finalization,
                  initialization_pct |-> Percent(initialization, job_duration),
                  training_loop_pct |->
                      [i \in step_0 |-> Percent(training_loop_duration[i], job_duration)],
                  finalization_pct |-> Percent(finalization, job_duration)]]

(***************************************************************************)
(* get_step_statistics and the describe() of a group of values: the mean   *)
(* is kept as sum / count; the interpolated percentiles are left out.      *)
(***************************************************************************)
RECURSIVE SumOver(_, _)
SumOver(f, S) ==
    IF S = {} THEN 0
    ELSE LET x == CHOOSE y \in S : TRUE
         IN  f[x] + SumOver(f, S \ {x})

Describe(values, members) ==
    [mean |-> [sum |-> SumOver(values, members), count |-> Cardinality(members)],
     min |-> SetMin({values[i] : i \in members}),
     max |-> SetMax({values[i] : i \in members})]

GroupColumn(framework_df, by) ==
    [i \in 1..Len(framework_df) |->
        IF by = "process" THEN framework_df[i].process ELSE framework_df[i].framework_metric]

\* the rows that enter the grouping
StepRows(framework_df, by) ==
    IF by = "training_phase"
    THEN {i \in 1..Len(framework_df) :
            StrContains(framework_df[i].framework_metric, STEP_MODEKEYS)}
    ELSE 1..Len(framework_df)

StepStatistics(framework_df, by) ==
    IF by \in {"framework_metric", "process", "training_phase"}
    THEN LET col == GroupColumn(framework_df, by)
             rows == StepRows(framework_df, by)
             duration == [i \in 1..Len(framework_df) |-> framework_df[i].duration_us]
         IN  [k \in {col[i] : i \in rows} |->
                 Describe(duration, {i \in rows : col[i] = k})]
    ELSE "None"

(***************************************************************************)
(* get_utilization_stats                                                   *)
(***************************************************************************)
\* the value of a "phase" cell that was never assigned
NaN == "NaN"

\* helper(start, end, phase): label the rows whose timestamp lies in
\* [start, end]
LabelRows(sys_df, interval) ==
    [i \in 1..Len(sys_df) |->
        IF /\ interval.start_time_us <= sys_df[i].timestamp_us
           /\ sys_df[i].timestamp_us <= interval.end_time_us
        THEN [sys_df[i] EXCEPT !.phase = interval.phase]
        ELSE sys_df[i]]

\* interval_df.apply(helper, axis=1): one interval after the other
RECURSIVE UtilizationPhaseByTimeInterval(_, _)
UtilizationPhaseByTimeInterval(sys_df, interval_df) ==
    IF Len(interval_df) = 0 THEN sys_df
    ELSE UtilizationPhaseByTimeInterval(LabelRows(sys_df, Head(interval_df)),
                                        Tail(interval_df))

ResourceRows(sys_df, resrc) ==
    {i \in 1..Len(sys_df) : StrContains(sys_df[i].system_metric, resrc)}

\* the groups of groupby("phase") among the rows of a resource: rows
\* without a label belong to no group
PhaseKeys(sys_df, resrc) ==
    {<<resrc, sys_df[i].phase>> :
        i \in {j \in ResourceRows(sys_df, resrc) : sys_df[j].phase # NaN}}

\* the statistics per resource and phase, or per resource
UtilizationTable(sys_df, by) ==
    LET value == [i \in 1..Len(sys_df) |-> sys_df[i].value]
    IN  IF by = "training_phase"
        THEN [k \in PhaseKeys(sys_df, CPU) \cup PhaseKeys(sys_df, GPU) |->
                Describe(value, {i \in ResourceRows(sys_df, k[1]) : sys_df[i].phase = k[2]})]
        ELSE [resrc \in {r \in {CPU, GPU} : ResourceRows(sys_df, r) # {}} |->
                Describe(value, ResourceRows(sys_df, resrc))]

(***************************************************************************)
(* get_device_usage_stats                                                  *)
(***************************************************************************)
DefaultUtilizationRanges == <<<<90, 100>>, <<10, 90>>, <<0, 10>>>>

\* the count with the upper end left out of the range
BetweenRangeExclusive(sys_df, device, start, end) ==
    Cardinality({i \in ResourceRows(sys_df, device) :
                    start <= sys_df[i].value /\ sys_df[i].value < end})

\* len(device_sys_df[device_sys_df["value"].between(start, end)])
BetweenRange(sys_df, device, start, end) ==
    Cardinality({i \in ResourceRows(sys_df, device) :
                    start <= sys_df[i].value /\ sys_df[i].value <= end})

\* The loop over utilization_ranges from the k-th tuple on, usage_dict
\* being the counts so far.  "start, end = ranges" raises ValueError unless
\* the tuple has exactly two elements, before its length is looked at.
RECURSIVE UsageLoop(_, _, _, _, _)
UsageLoop(sys_df, device, utilization_ranges, k, usage_dict) ==
    IF k > Len(utilization_ranges)
    THEN [raised |-> "", value |-> usage_dict]
    ELSE LET ranges == utilization_ranges[k]
         IN  IF Len(ranges) # 2
             THEN [raised |-> "ValueError", value |-> <<>>]
             ELSE IF Len(ranges) < 2
             THEN [raised |-> "", value |-> <<>>]
             ELSE UsageLoop(sys_df, device, utilization_ranges, k + 1,
                     [r \in DOMAIN usage_dict \cup {ranges} |->
                         IF r = ranges
                         THEN BetweenRange(sys_df, device, ranges[1], ranges[2])
                         ELSE usage_dict[r]])

DeviceUsageStats(sys_df, device, utilization_ranges) ==
    UsageLoop(sys_df, device, utilization_ranges, 1, <<>>)

(***************************************************************************)
(* The calls.  ret.raised names the exception a call ended with ("" when   *)
(* it returned), ret.value is what it returned.                            *)
(***************************************************************************)
Return(op, args, outcome) ==
    [op |-> op, args |-> args, raised |-> outcome.raised, value |-> outcome.value]

\* the phase argument: None, or a list of phase names
PhaseNone == [given |-> FALSE, phase |-> <<>>]

PhaseList(phase) == [given |-> TRUE, phase |-> phase]

\* lines 249-251
ResolvePhase(framework_df, arg) ==
    IF arg.given THEN arg.phase ELSE DefaultPhase(framework_df)

get_job_statistics ==
    /\ ret' = Return("get_job_statistics", <<>>,
                     JobStatistics(sys_metrics_df, framework_metrics_df))
    /\ UNCHANGED <<sys_metrics_df, framework_metrics_df, init_framework_df>>

\* describe() of a table without rows is not modelled: the call is taken
\* when some row enters the grouping
get_step_statistics(by) ==
    /\ by \in {"framework_metric", "process", "training_phase"}
          => StepRows(framework_metrics_df, by) # {}
    /\ ret' = Return("get_step_statistics", [by |-> by],
                     [raised |-> "", value |-> StepStatistics(framework_metrics_df, by)])
    /\ UNCHANGED <<sys_metrics_df, framework_metrics_df, init_framework_df>>

get_training_phase_intervals(arg) ==
    /\ ret' = Return("get_training_phase_intervals", arg,
                     TrainingPhaseIntervals(sys_metrics_df, framework_metrics_df,
                                            ResolvePhase(framework_metrics_df, arg)))
    /\ UNCHANGED <<sys_metrics_df, framework_metrics_df, init_framework_df>>

\* by = "training_phase": the interval table is built and the rows of the
\* system table are labelled from it before the statistics are taken; an
\* exception of get_training_phase_intervals leaves the table as it was
get_utilization_stats(by, arg) ==
    LET intervals == TrainingPhaseIntervals(sys_metrics_df, framework_metrics_df,
                                            ResolvePhase(framework_metrics_df, arg))
        labelled == UtilizationPhaseByTimeInterval(sys_metrics_df, intervals.value)
    IN  /\ IF by = "training_phase"
           THEN IF intervals.raised # ""
                THEN /\ ret' = Return("get_utilization_stats", [by |-> by, phase |-> arg],
                                      [raised |-> intervals.raised, value |-> <<>>])
                     /\ UNCHANGED sys_metrics_df
                ELSE /\ sys_metrics_df' = labelled
                     /\ ret' = Return("get_utilization_stats", [by |-> by, phase |-> arg],
                                      [raised |-> "", value |-> UtilizationTable(labelled, by)])
           ELSE /\ ret' = Return("get_utilization_stats", [by |-> by, phase |-> arg],
                                 [raised |-> "",
                                  value |-> UtilizationTable(sys_metrics_df, by)])
                /\ UNCHANGED sys_metrics_df
        /\ UNCHANGED <<framework_metrics_df, init_framework_df>>

\* the utilization_ranges argument: None, or a list of tuples
RangesNone == [given |-> FALSE, ranges |-> <<>>]

RangesList(ranges) == [given |-> TRUE, ranges |-> ranges]

get_device_usage_stats(device, arg) ==
    /\ ret' = Return("get_device_usage_stats", [device |-> device, utilization_ranges |-> arg],
                     DeviceUsageStats(sys_metrics_df, device,
                         IF arg.given THEN arg.ranges ELSE DefaultUtilizationRanges))
    /\ UNCHANGED <<sys_metrics_df, framework_metrics_df, init_framework_df>>

(***************************************************************************)
(* The tables handed to the constructor.                                   *)
(***************************************************************************)
SeqsUpTo(S, lo, hi) == UNION {[1..n -> S] : n \in lo..hi}

Spans == {<<s, e>> \in Times \X Times : s <= e}

FwRow(span, metric, process, step) ==
    [start_time_us |-> span[1], end_time_us |-> span[2],
     framework_metric |-> metric, process |-> process, step |-> step]

SysRow(timestamp_us, system_metric, value) ==
    [timestamp_us |-> timestamp_us, system_metric |-> system_metric,
     value |-> value, phase |-> NaN]

\* __init__
Construct(system_df, framework_df) ==
    /\ sys_metrics_df = system_df
    /\ init_framework_df = framework_df
    /\ framework_metrics_df = WithDuration(framework_df)
    /\ ret = [op |-> "__init__", args |-> <<>>, raised |-> "", value |-> <<>>]

(***************************************************************************)
(* Interval construction: every framework table of at most MaxFw rows with *)
(* times in Times, over a system table of a first and a last sample.       *)
(***************************************************************************)
SysSamples == SeqsUpTo({SysRow(t, CPU0, 0) : t \in Times}, 1, MaxSys)

FirstAndLastSample ==
    {<<SysRow(p[1], CPU0, 0), SysRow(p[2], CPU0, 0)>> :
        p \in {q \in Times \X Times : q[1] < q[2]}}

IntervalFwRows == {FwRow(span, m, m, 0) : span \in Spans, m \in {TRAIN, EVAL}}

\* a single phase and several phases; with process = framework_metric in every
\* row, phase=None resolves to one of these lists or to their mirror images
PhaseArgs == {PhaseList(<<TRAIN>>), PhaseList(<<TRAIN, EVAL>>)}

InitIntervals ==
    \E system_df \in FirstAndLastSample, fw \in SeqsUpTo(IntervalFwRows, 0, MaxFw) :
        Construct(system_df, fw)

NextIntervals == \E arg \in PhaseArgs : get_training_phase_intervals(arg)

SpecIntervals == InitIntervals /\ [][NextIntervals]_vars

(***************************************************************************)
(* Usage buckets: system tables of cpu and gpu samples, lists of at most   *)
(* MaxRanges range tuples, some of them too short.                         *)
(***************************************************************************)
UtilizationValues == {10, 50}

RangeTuples == {<<0, 10>>, <<11, 100>>, <<50>>}

RangesArgs == {RangesNone} \cup {RangesList(l) : l \in SeqsUpTo(RangeTuples, 1, MaxRanges)}

InitUsage ==
    \E system_df \in SeqsUpTo({SysRow(0, m, v) : m \in {CPU0, GPU0}, v \in UtilizationValues},
                              1, MaxSys) :
        Construct(system_df, <<>>)

NextUsage == \E device \in {CPU, GPU}, arg \in RangesArgs : get_device_usage_stats(device, arg)

SpecUsage == InitUsage /\ [][NextUsage]_vars

(***************************************************************************)
(* Job statistics: framework tables of steps in several modes.             *)
(***************************************************************************)
JobFwRows ==
    {FwRow(span, k[1], k[1], k[2]) :
        span \in Spans, k \in {<<TRAIN, 0>>, <<TRAIN, 1>>, <<EVAL, 0>>}}

InitJob ==
    \E system_df \in SysSamples, fw \in SeqsUpTo(JobFwRows, 0, MaxFw) :
        Construct(system_df, fw)

NextJob == get_job_statistics

SpecJob == InitJob /\ [][NextJob]_vars

(***************************************************************************)
(* Utilization by training phase: a cpu or gpu sample at every time of     *)
(* Times, over framework tables of TRAIN rows and an EVAL row; the query   *)
(* is repeated with different phase lists.                                 *)
(***************************************************************************)
UtilSysRows == {SysRow(0, CPU0, 50), SysRow(1, GPU0, 50), SysRow(2, CPU0, 50)}

UtilFwRows ==
    {FwRow(span, TRAIN, TRAIN, 0) : span \in {<<0, 0>>, <<0, 1>>, <<1, 1>>, <<1, 2>>}}
        \cup {FwRow(<<2, 2>>, EVAL, EVAL, 0)}

UtilPhaseArgs == {PhaseNone, PhaseList(<<TRAIN>>), PhaseList(<<EVAL>>)}

InitUtil ==
    \E system_df \in SeqsUpTo(UtilSysRows, 1, MaxSys),
       fw \in SeqsUpTo(UtilFwRows, 0, MaxFw) :
        Construct(system_df, fw)

NextUtil ==
    \E by \in {"None", "training_phase"}, arg \in UtilPhaseArgs :
        get_utilization_stats(by, arg)

SpecUtil == InitUtil /\ [][NextUtil]_vars

(***************************************************************************)
(* All the queries, in any order, on tables made of a few sample rows.     *)
(***************************************************************************)
SampleFwRows ==
    {FwRow(<<0, 1>>, TRAIN, TRAIN, 0), FwRow(<<2, 2>>, TRAIN, TRAIN, 1),
     FwRow(<<0, 1>>, FORWARD, TRAIN, 0)}

SampleSysRows == {SysRow(0, CPU0, 10), SysRow(2, GPU0, 95)}

Init ==
    \E system_df \in SeqsUpTo(SampleSysRows, 1, MaxSys),
       fw \in SeqsUpTo(SampleFwRows, 0, MaxFw) :
        Construct(system_df, fw)

Next ==
    \/ get_job_statistics
    \/ \E by \in {"framework_metric", "process", "training_phase", "step"} :
          get_step_statistics(by)
    \/ \E call \in {<<"None", PhaseNone>>, <<"training_phase", PhaseNone>>,
                      <<"training_phase", PhaseList(<<TRAIN>>)>>} :
          get_utilization_stats(call[1], call[2])
    \/ \E arg \in {RangesNone, RangesList(<<<<0, 10>>, <<11, 100>>>>), RangesList(<<<<50>>>>)} :
          get_device_usage_stats(CPU, arg)
    \/ \E arg \in {PhaseNone, PhaseList(<<TRAIN>>), PhaseList(<<TRAIN, FORWARD>>)} :
          get_training_phase_intervals(arg)

Spec == Init /\ [][Next]_vars

(***************************************************************************)
(* Properties of get_training_phase_intervals (SpecIntervals).             *)
(***************************************************************************)
IntervalsCalled == ret.op = "get_training_phase_intervals"

IntervalsReturned == IntervalsCalled /\ ret.raised = ""

\* the phase list the last call worked with
CalledPhase == ResolvePhase(framework_metrics_df, ret.args)

\* the framework_metric column of the rows the phase list selects
Tracked(phase) ==
    LET metric == [i \in 1..Len(framework_metrics_df) |->
                      framework_metrics_df[i].framework_metric]
    IN  SelectRows(metric, {i \in 1..Len(metric) : metric[i] \in SeqRange(phase)})

\* the maximal runs of equal neighbours of a sequence, one entry per run
RECURSIVE Runs(_)
Runs(s) ==
    IF Len(s) <= 1 THEN s
    ELSE IF s[1] = s[2] THEN Runs(Tail(s)) ELSE <<s[1]>> \o Runs(Tail(s))

BetweenLabel(a, b) ==
    IF StrLessEq(a, b)
    THEN "Between " \o a \o " and " \o b
    ELSE "Between " \o b \o " and " \o a

PhaseColumn(table) == [i \in 1..Len(table) |-> table[i].phase]

\* C1: the returned rows are contiguous in table order (each row's
\* end_time_us + 1 is the next row's start_time_us), the first row starts at
\* the minimum system timestamp_us and the last row ends at the maximum.
C1_ContiguousSpanning ==
    IntervalsReturned =>
        LET t == ret.value
        IN  /\ \A i \in 1..(Len(t) - 1) : t[i].end_time_us + 1 = t[i + 1].start_time_us
            /\ t[1].start_time_us = MinTimestamp(sys_metrics_df)
            /\ t[Len(t)].end_time_us = MaxTimestamp(sys_metrics_df)

\* C2: with more than one phase tracked and the tracked rows forming the
\* maximal runs P1..Pk (k >= 1), the call returns exactly the 2k+1 rows
\* Before P1, P1, Between.., P2, .., Pk, After Pk, every Between label naming
\* its two neighbours in lexicographic order; the phases TRAIN, TRAIN, EVAL
\* give Before TRAIN, TRAIN, Between EVAL and TRAIN, EVAL, After EVAL.
C2_RunsAndLabels ==
    (IntervalsCalled /\ Len(CalledPhase) > 1 /\ Len(Tracked(CalledPhase)) >= 1) =>
        LET P == Runs(Tracked(CalledPhase))
            k == Len(P)
            t == ret.value
        IN  /\ ret.raised = ""
            /\ Len(t) = 2 * k + 1
            /\ t[1].phase = "Before " \o P[1]
            /\ \A j \in 1..k : t[2 * j].phase = P[j]
            /\ \A j \in 1..(k - 1) : t[2 * j + 1].phase = BetweenLabel(P[j], P[j + 1])
            /\ t[2 * k + 1].phase = "After " \o P[k]
            /\ Tracked(CalledPhase) = <<TRAIN, TRAIN, EVAL>> =>
                  PhaseColumn(t) =
                      <<"Before Step:ModeKeys.TRAIN",
                        "Step:ModeKeys.TRAIN",
                        "Between Step:ModeKeys.EVAL and Step:ModeKeys.TRAIN",
                        "Step:ModeKeys.EVAL",
                        "After Step:ModeKeys.EVAL">>

\* C2 witness: the call returned for tracked rows TRAIN, TRAIN, EVAL
C2_Witness ==
    /\ IntervalsReturned
    /\ Len(CalledPhase) > 1
    /\ Tracked(CalledPhase) = <<TRAIN, TRAIN, EVAL>>
    /\ Len(ret.value) = 5

\* the merged intervals read as rows to merge again
AsModeRows(intervals) ==
    [i \in 1..Len(intervals) |->
        [index |-> intervals[i].index,
         start_time_us |-> intervals[i].start_time_us,
         end_time_us |-> intervals[i].end_time_us,
         framework_metric |-> intervals[i].phase]]

\* C3: the run-length merge of the rows a call's phase list selects is
\* idempotent: merging its own output again gives the same intervals.
C3_MergeIdempotent ==
    IntervalsCalled =>
        LET merged == RunLengthMerge(ModeRows(framework_metrics_df, CalledPhase))
        IN  RunLengthMerge(AsModeRows(merged)) = merged

\* C3 witness: a call with several phases whose merge collapsed rows
C3_Witness ==
    /\ IntervalsReturned
    /\ Len(CalledPhase) > 1
    /\ Len(Runs(Tracked(CalledPhase))) >= 2
    /\ Len(Tracked(CalledPhase)) > Len(Runs(Tracked(CalledPhase)))

\* C8: the Before row spans from the minimum system timestamp_us to the
\* first phase interval's start_time_us - 1; the After row spans from the
\* last phase interval's start_time_us - 1 to the maximum system timestamp_us.
C8_BeforeAfterSpans ==
    IntervalsReturned =>
        LET t == ret.value
            n == Len(t)
        IN  /\ n >= 3
            /\ t[1].phase = "Before " \o t[2].phase
            /\ t[1].start_time_us = MinTimestamp(sys_metrics_df)
            /\ t[1].end_time_us = t[2].start_time_us - 1
            /\ t[n].phase = "After " \o t[n - 1].phase
            /\ t[n].start_time_us = t[n - 1].start_time_us - 1
            /\ t[n].end_time_us = MaxTimestamp(sys_metrics_df)

\* C8 witness: a returned table whose last phase interval is longer than
\* one time unit, between distinct system timestamps
C8_Witness ==
    /\ IntervalsReturned
    /\ MinTimestamp(sys_metrics_df) < MaxTimestamp(sys_metrics_df)
    /\ LET t == ret.value
       IN  /\ Len(t) >= 5
           /\ t[Len(t) - 1].start_time_us < t[Len(t) - 1].end_time_us

\* the phase intervals of a returned table are its even rows: neighbours are
\* the rows 2j and 2j+2
NoEqualNeighbours(t) ==
    \A j \in 1..Len(t) : (j % 2 = 0 /\ j + 2 < Len(t)) => t[j].phase # t[j + 2].phase

NoBetweenSame(t) ==
    \A i \in 1..Len(t) : \A x \in {TRAIN, EVAL, GLOBAL} :
        t[i].phase # "Between " \o x \o " and " \o x

\* C9 as stated: for every phase list, a single phase included, no two
\* neighbouring phase intervals of the returned table carry the same phase
\* and no "Between X and X" row is produced.
C9_NoEqualNeighboursAnyList ==
    IntervalsReturned => NoEqualNeighbours(ret.value) /\ NoBetweenSame(ret.value)

\* C9 amended: for every phase list of more than one phase, no two
\* neighbouring phase intervals of the returned table carry the same phase
\* and no "Between X and X" row is produced.
C9_NoEqualNeighboursSeveralPhases ==
    (IntervalsReturned /\ Len(CalledPhase) > 1) =>
        NoEqualNeighbours(ret.value) /\ NoBetweenSame(ret.value)

\* C9 witness: several phases tracked, equal consecutive rows merged, and a
\* Between row in the table
C9_Witness ==
    /\ IntervalsReturned
    /\ Len(CalledPhase) > 1
    /\ Len(Tracked(CalledPhase)) > Len(Runs(Tracked(CalledPhase)))
    /\ Len(ret.value) >= 5

InputRowsOrdered ==
    \A i \in 1..Len(framework_metrics_df) :
        framework_metrics_df[i].start_time_us <= framework_metrics_df[i].end_time_us

\* C11: when every framework row has start_time_us <= end_time_us, the
\* returned table has no Between row for two consecutive phase intervals
\* without a gap (next start_time_us <= previous end_time_us + 1), that is,
\* every row between two phase intervals has start_time_us <= end_time_us.
\* (The Between rows are the odd rows 3, 5, .. before the last one.)
C11_NoBetweenWithoutGap ==
    (IntervalsReturned /\ InputRowsOrdered) =>
        LET t == ret.value
        IN  \A i \in 2..(Len(t) - 1) :
                i % 2 = 1 =>
                    /\ t[i - 1].end_time_us + 1 < t[i + 1].start_time_us
                    /\ t[i].start_time_us <= t[i].end_time_us

(***************************************************************************)
(* Properties of get_device_usage_stats (SpecUsage).                       *)
(***************************************************************************)
UsageCalled == ret.op = "get_device_usage_stats"

\* the list of tuples the last call worked with
CalledRanges ==
    IF ret.args.utilization_ranges.given
    THEN ret.args.utilization_ranges.ranges
    ELSE DefaultUtilizationRanges

\* the system rows whose system_metric names the device of the last call
DeviceRows ==
    {i \in 1..Len(sys_metrics_df) :
        StrContains(sys_metrics_df[i].system_metric, ret.args.device)}

\* C4: whenever a tuple of utilization_ranges has fewer than two elements,
\* get_device_usage_stats returns an empty mapping and does not raise.
C4_ShortTupleReturnsEmpty ==
    (UsageCalled /\ \E k \in 1..Len(CalledRanges) : Len(CalledRanges[k]) < 2) =>
        ret.raised = "" /\ DOMAIN ret.value = {}

InRange(v, range) == range[1] <= v /\ v <= range[2]

\* no number lies in two of the ranges
PairwiseDisjoint(ranges) ==
    \A i, j \in 1..Len(ranges) :
        i # j => \/ ranges[i][1] > ranges[i][2]
                 \/ ranges[j][1] > ranges[j][2]
                 \/ ranges[i][2] < ranges[j][1]
                 \/ ranges[j][2] < ranges[i][1]

\* every value of a device row lies in one of the ranges
CoversValues(ranges) ==
    \A i \in DeviceRows : \E k \in 1..Len(ranges) : InRange(sys_metrics_df[i].value, ranges[k])

\* C5: for a list of (low, high) ranges that are pairwise non-overlapping
\* and cover every utilization value present, each range's count is the
\* number of device rows with low <= value <= high and the counts sum to the
\* number of device rows.
C5_CountsPartitionDeviceRows ==
    (/\ UsageCalled
     /\ \A k \in 1..Len(CalledRanges) : Len(CalledRanges[k]) = 2
     /\ PairwiseDisjoint(CalledRanges)
     /\ CoversValues(CalledRanges)) =>
        /\ ret.raised = ""
        /\ DOMAIN ret.value = SeqRange(CalledRanges)
        /\ \A k \in 1..Len(CalledRanges) :
              ret.value[CalledRanges[k]] =
                  Cardinality({i \in DeviceRows :
                                  InRange(sys_metrics_df[i].value, CalledRanges[k])})
        /\ SumOver(ret.value, DOMAIN ret.value) = Cardinality(DeviceRows)

\* C5 witness: two disjoint ranges and a device row whose value is the upper
\* end of one of them, beside a row of the other device
C5_Witness ==
    /\ UsageCalled
    /\ ret.raised = ""
    /\ Len(CalledRanges) = 2
    /\ PairwiseDisjoint(CalledRanges)
    /\ CoversValues(CalledRanges)
    /\ Cardinality(DeviceRows) = 1
    /\ Len(sys_metrics_df) = 2
    /\ \E i \in DeviceRows : \E k \in 1..2 :
          /\ sys_metrics_df[i].value = CalledRanges[k][2]
          /\ ret.value[CalledRanges[k]] = 1

(***************************************************************************)
(* Properties of get_job_statistics (SpecJob).                             *)
(***************************************************************************)
JobReturned == ret.op = "get_job_statistics" /\ ret.raised = ""

\* the system timestamps span the framework events, over a job of positive
\* length (the rows of every table of InitJob have start <= end, and a
\* returned call has found its step-0 row)
WellFormedJob ==
    /\ MinTimestamp(sys_metrics_df) < MaxTimestamp(sys_metrics_df)
    /\ \A i \in 1..Len(framework_metrics_df) :
          /\ framework_metrics_df[i].start_time_us <= framework_metrics_df[i].end_time_us
          /\ MinTimestamp(sys_metrics_df) <= framework_metrics_df[i].start_time_us
          /\ framework_metrics_df[i].end_time_us <= MaxTimestamp(sys_metrics_df)

\* C6: for well-formed inputs initialization, training_loop_duration and
\* finalization are each >= 0 and the three percentages sum to at most 100
\* (num1/den + num2/den + num3/den <= 100 with den > 0).
C6_JobStatisticsWithinJob ==
    (JobReturned /\ WellFormedJob) =>
        LET js == ret.value
        IN  /\ js.initialization >= 0
            /\ js.finalization >= 0
            /\ \A i \in DOMAIN js.training_loop_duration :
                  /\ js.training_loop_duration[i] >= 0
                  /\ js.initialization_pct.num + js.training_loop_pct[i].num
                         + js.finalization_pct.num <= 100 * js.job_duration

(***************************************************************************)
(* The framework table under all the queries (Spec).                       *)
(***************************************************************************)
\* C7: after construction and after any sequence of queries every framework
\* row has duration_us = end_time_us - start_time_us, and the table has the
\* rows and the other column values it was constructed with.
C7_FrameworkTableKept ==
    /\ Len(framework_metrics_df) = Len(init_framework_df)
    /\ \A i \in 1..Len(framework_metrics_df) :
          LET row == framework_metrics_df[i]
          IN  /\ row.duration_us = row.end_time_us - row.start_time_us
              /\ DOMAIN row = DOMAIN init_framework_df[i] \cup {"duration_us"}
              /\ \A c \in DOMAIN init_framework_df[i] : row[c] = init_framework_df[i][c]

\* C7 witness: a utilization query by training phase has labelled the system
\* rows of an object whose framework table has rows of positive duration
C7_Witness ==
    /\ ret.op = "get_utilization_stats"
    /\ ret.raised = ""
    /\ \A i \in 1..Len(sys_metrics_df) : sys_metrics_df[i].phase # NaN
    /\ Len(framework_metrics_df) >= 2
    /\ \E i \in 1..Len(framework_metrics_df) : framework_metrics_df[i].duration_us > 0

(***************************************************************************)
(* Properties of get_utilization_stats (SpecUtil).                         *)
(***************************************************************************)
\* the last call was by training phase and returned
LabelledByPhase ==
    /\ ret.op = "get_utilization_stats"
    /\ ret.args.by = "training_phase"
    /\ ret.raised = ""

\* the interval table the last call built (the labels leave the system
\* timestamps, which are all the table takes from the system rows, alone)
LatestIntervals ==
    TrainingPhaseIntervals(sys_metrics_df, framework_metrics_df,
                           ResolvePhase(framework_metrics_df, ret.args.phase)).value

Contains(interval, timestamp_us) ==
    interval.start_time_us <= timestamp_us /\ timestamp_us <= interval.end_time_us

\* C12: after get_utilization_stats(by="training_phase") has returned,
\* every system row is labelled, and its label is the phase of each
\* interval of the latest interval table whose inclusive range
\* [start_time_us, end_time_us] contains the row's timestamp_us; so a row
\* inside a tracked phase's interval carries that phase.
C12_RowsLabelledByContainingInterval ==
    LabelledByPhase =>
        \A i \in 1..Len(sys_metrics_df) :
            /\ sys_metrics_df[i].phase # NaN
            /\ \A k \in 1..Len(LatestIntervals) :
                  Contains(LatestIntervals[k], sys_metrics_df[i].timestamp_us)
                      => sys_metrics_df[i].phase = LatestIntervals[k].phase

====
